---- MODULE Spec2Model ----
(***************************************************************************)
(* Model of src/fibonacci.rs: the iterative calculator `fibonacci` over    *)
(* 64-bit unsigned integers and the driver `main` that prints fib(0..9).   *)
(*                                                                         *)
(* A u64 is a little-endian tuple of U64Limbs limbs, each in 0..LimbBase-1,*)
(* so that the full 64-bit width is kept and a sum that does not fit is    *)
(* seen as a carry out of the top limb.                                    *)
(***************************************************************************)
EXTENDS Integers, Sequences, FiniteSets, TLC

\* ---------------------------------------------------------------- bounds
\* Largest index the test harness passes to fibonacci (F(93) is the last
\* Fibonacci number below 2^64, so 94 and 95 overflow).
MaxN == 95
\* Largest index of the repeated-call harness.
MaxPureN == 5

\* ------------------------------------------------------- u64 arithmetic
LimbBase == 65536
U64Limbs == 4

Zero == <<0, 0, 0, 0>>
One == <<1, 0, 0, 0>>

\* A local that has not been given a value (or whose frame is gone).
Uninit == <<>>

\* An index (a small u64 held as an integer in the model) as a u64 value.
U64(n) == <<n % LimbBase, n \div LimbBase, 0, 0>>

RECURSIVE AddFrom(_, _, _, _, _)
AddFrom(x, y, j, carry, acc) ==
    IF j > Len(x)
    THEN [sum |-> acc, carry |-> carry]
    ELSE LET t == x[j] + y[j] + carry
         IN AddFrom(x, y, j + 1, t \div LimbBase, Append(acc, t % LimbBase))

\* x + y on equally long limb tuples: the sum modulo LimbBase^Len(x) and the
\* carry out of the top limb.
AddLimbs(x, y) == AddFrom(x, y, 1, 0, <<>>)

\* A 16-bit accumulator instead of a 64-bit one.
AddU16(x, y, checks) ==
    LET t == x[1] + y[1]
    IN [panic |-> checks /\ t >= LimbBase, val |-> <<t % LimbBase, 0, 0, 0>>]

\* Saturating instead of wrapping addition.
AddSaturating(x, y, checks) ==
    LET r == AddLimbs(x, y)
    IN [panic |-> FALSE,
        val |-> IF r.carry = 1
                THEN <<LimbBase - 1, LimbBase - 1, LimbBase - 1, LimbBase - 1>>
                ELSE r.sum]

\* The `+` of two u64 (line 8).  With overflow checks compiled in (rustc's
\* default without optimisation) a sum that does not fit panics; without them
\* (the default with optimisation) it wraps modulo 2^64.
AddU64(x, y, checks) ==
    LET r == AddLimbs(x, y)
    IN [panic |-> checks /\ r.carry = 1, val |-> r.sum]

RECURSIVE GeqFrom(_, _, _)
GeqFrom(x, y, j) ==
    IF j = 0 THEN TRUE
    ELSE IF x[j] # y[j] THEN x[j] > y[j]
    ELSE GeqFrom(x, y, j - 1)

\* x >= y on equally long limb tuples.
Geq(x, y) == GeqFrom(x, y, Len(x))

\* ------------------------------------------------- decimal formatting
Digit == <<"0", "1", "2", "3", "4", "5", "6", "7", "8", "9">>

RECURSIVE DivMod10From(_, _, _, _)
DivMod10From(x, j, rem, q) ==
    IF j = 0
    THEN [q |-> q, r |-> rem]
    ELSE LET cur == rem * LimbBase + x[j]
         IN DivMod10From(x, j - 1, cur % 10, [q EXCEPT ![j] = cur \div 10])

\* Quotient and remainder of a u64 divided by ten.
DivMod10(x) == DivMod10From(x, Len(x), 0, x)

RECURSIVE DecDigits(_)
DecDigits(x) ==
    IF x = Zero THEN ""
    ELSE LET d == DivMod10(x) IN DecDigits(d.q) \o Digit[d.r + 1]

\* Display of a u64: its decimal digits, no sign, no leading zeros.
Dec(x) == IF x = Zero THEN "0" ELSE DecDigits(x)

\* Arguments in the wrong order.
FormatSwapped(i, v) == "fib(" \o Dec(v) \o ") = " \o Dec(U64(i))

\* The line println!("fib({}) = {}", i, v) writes (without its newline).
Format(i, v) == "fib(" \o Dec(U64(i)) \o ") = " \o Dec(v)

\* ----------------------------------------------------------- state
VARIABLES
    overflow_checks,  \* whether the build checks integer overflow
    mpc,              \* who calls fibonacci and where that caller stands
    i,                \* main's loop variable (line 16)
    calls,            \* number of calls of fibonacci main has made
    stdout,           \* the lines written to standard output so far
    write_err,        \* whether a write to standard output has failed
    exit_code,        \* the process's exit status, -1 while it runs
    frame,            \* the activation of fibonacci: pc, n, a, b, range, result
    seen              \* repeated-call harness: the value returned for each n

vars == <<overflow_checks, mpc, i, calls, stdout, write_err, exit_code, frame, seen>>

\* ------------------------------------------------------- fibonacci
NoFrame ==
    [pc |-> "idle", n |-> 0, a |-> Uninit, b |-> Uninit, k |-> 0,
     ret |-> Uninit, iters |-> 0]

\* The activation at the call fibonacci(m): no local has a value yet.
Call(m) == [NoFrame EXCEPT !.pc = "entry", !.n = m]

\* Only n = 0 returns early.
BaseCaseStrict(n) == n < 1

\* if n <= 1 (line 2)
BaseCase(n) == n <= 1

\* Lines 2-4: the early return of n itself, or on to the accumulators.
Entry(f) ==
    IF BaseCase(f.n)
    THEN [f EXCEPT !.pc = "return", !.ret = U64(f.n)]
    ELSE [f EXCEPT !.pc = "let_a"]

\* let mut a: u64 = 0 (line 5)
LetA(f) == [f EXCEPT !.a = Zero, !.pc = "let_b"]

\* let mut b: u64 = 1 (line 6), then the range 2..=n is built (line 7);
\* k is the next value the range yields.
LetB(f) == [f EXCEPT !.b = One, !.k = 2, !.pc = "for"]

\* The exclusive range 2..n.
ForNextExclusive(f) ==
    IF f.k < f.n
    THEN [f EXCEPT !.k = f.k + 1, !.pc = "body"]
    ELSE [f EXCEPT !.pc = "tail"]

\* for _ in 2..=n (line 7): the next value of the range, or the loop's end.
ForNext(f) ==
    IF f.k <= f.n
    THEN [f EXCEPT !.k = f.k + 1, !.pc = "body"]
    ELSE [f EXCEPT !.pc = "tail"]

\* a is overwritten before the sum is taken: b = b + b.
BodySwapped(f, checks) ==
    LET s == AddU64(f.b, f.b, checks)
    IN IF s.panic
       THEN [f EXCEPT !.pc = "panic"]
       ELSE [f EXCEPT !.a = f.b, !.b = s.val, !.iters = f.iters + 1, !.pc = "for"]

\* Lines 8-10: temp = a + b; a = b; b = temp.  iters counts the executions
\* of the loop body.
Body(f, checks) ==
    LET s == AddU64(f.a, f.b, checks)
    IN IF s.panic
       THEN [f EXCEPT !.pc = "panic"]
       ELSE [f EXCEPT !.a = f.b, !.b = s.val, !.iters = f.iters + 1, !.pc = "for"]

\* The accumulator outlives the call.
Keep(x) == x

\* A local goes out of scope when the function returns.
Drop(x) == Uninit

\* a is returned instead of b.
ReturnA(f) ==
    [f EXCEPT !.pc = "return", !.ret = f.a, !.a = Drop(f.a), !.b = Drop(f.b)]

\* Line 12: b is the value of the function; the locals are gone.
ReturnB(f) ==
    [f EXCEPT !.pc = "return", !.ret = f.b, !.a = Drop(f.a), !.b = Drop(f.b)]

\* One step of the activation f.
StepF(f, checks) ==
    CASE f.pc = "entry" -> Entry(f)
      [] f.pc = "let_a" -> LetA(f)
      [] f.pc = "let_b" -> LetB(f)
      [] f.pc = "for" -> ForNext(f)
      [] f.pc = "body" -> Body(f, checks)
      [] f.pc = "tail" -> ReturnB(f)
      [] OTHER -> f

\* cnt steps of the activation f (taken in two halves, the second only
\* when the first has not ended the call).
RECURSIVE RunSteps(_, _, _)
RunSteps(f, checks, cnt) ==
    IF cnt = 0 THEN f
    ELSE IF cnt = 1 THEN StepF(f, checks)
    ELSE LET half == RunSteps(f, checks, cnt \div 2)
         IN IF half.pc \in {"return", "panic"}
            THEN half
            ELSE RunSteps(half, checks, cnt - (cnt \div 2))

\* The whole call fibonacci(m): its final activation, at "return" with the
\* value in ret, or at "panic".  A call that returns takes 2 steps for
\* m <= 1 and 2m + 3 steps otherwise; an activation that is over stays as it is.
fibonacci(m, checks) == RunSteps(Call(m), checks, 2 * m + 3)

FibEntry ==
    /\ frame.pc = "entry"
    /\ frame' = Entry(frame)
    /\ UNCHANGED <<overflow_checks, mpc, i, calls, stdout, write_err, exit_code, seen>>

FibLetA ==
    /\ frame.pc = "let_a"
    /\ frame' = LetA(frame)
    /\ UNCHANGED <<overflow_checks, mpc, i, calls, stdout, write_err, exit_code, seen>>

FibLetB ==
    /\ frame.pc = "let_b"
    /\ frame' = LetB(frame)
    /\ UNCHANGED <<overflow_checks, mpc, i, calls, stdout, write_err, exit_code, seen>>

FibForNext ==
    /\ frame.pc = "for"
    /\ frame' = ForNext(frame)
    /\ UNCHANGED <<overflow_checks, mpc, i, calls, stdout, write_err, exit_code, seen>>

FibBody ==
    /\ frame.pc = "body"
    /\ frame' = Body(frame, overflow_checks)
    /\ UNCHANGED <<overflow_checks, mpc, i, calls, stdout, write_err, exit_code, seen>>

FibTail ==
    /\ frame.pc = "tail"
    /\ frame' = ReturnB(frame)
    /\ UNCHANGED <<overflow_checks, mpc, i, calls, stdout, write_err, exit_code, seen>>

\* ------------------------------------------------------------ main
\* The range runs as far as the largest index of the harness.
DriverEndLong == MaxN

\* for i in 0..10 (line 16): the exclusive end of the range.
DriverEnd == 10

\* The exit status of a Rust process whose main thread panicked.
PanicExit == 101

\* The write's result is discarded and the loop goes on.
AfterPrintlnIgnore(ok) == "for"

\* println! panics when the write to standard output fails (line 17);
\* otherwise the loop goes on.
AfterPrintln(ok) == IF ok THEN "for" ELSE "exit"

\* Line 16: the next i of 0..10 and the call fibonacci(i) of line 17, or the
\* end of main, which returns and so exits with status 0.
MainFor ==
    /\ mpc = "for"
    /\ IF i < DriverEnd
       THEN /\ mpc' = "call"
            /\ frame' = Call(i)
            /\ calls' = calls + 1
            /\ UNCHANGED exit_code
       ELSE /\ mpc' = "exit"
            /\ exit_code' = 0
            /\ UNCHANGED <<frame, calls>>
    /\ UNCHANGED <<overflow_checks, i, stdout, write_err, seen>>

\* Line 17 once fibonacci(i) is over: a panic inside it ends the process;
\* otherwise the line is formatted and written, and the write succeeds or fails.
MainPrintln ==
    /\ mpc = "call"
    /\ frame.pc \in {"return", "panic"}
    /\ IF frame.pc = "panic"
       THEN /\ mpc' = "exit"
            /\ exit_code' = PanicExit
            /\ UNCHANGED <<i, stdout, write_err>>
       ELSE \E ok \in BOOLEAN :
            /\ stdout' = IF ok THEN Append(stdout, Format(i, frame.ret)) ELSE stdout
            /\ write_err' = (write_err \/ ~ok)
            /\ mpc' = AfterPrintln(ok)
            /\ exit_code' = IF mpc' = "exit" THEN PanicExit ELSE exit_code
            /\ i' = IF mpc' = "exit" THEN i ELSE i + 1
    /\ frame' = NoFrame
    /\ UNCHANGED <<overflow_checks, calls, seen>>

Init ==
    /\ overflow_checks \in BOOLEAN
    /\ mpc = "for"
    /\ i = 0
    /\ calls = 0
    /\ stdout = <<>>
    /\ write_err = FALSE
    /\ exit_code = -1
    /\ frame = NoFrame
    /\ seen = [m \in 0..MaxPureN |-> Uninit]

Next == MainFor \/ MainPrintln \/ FibEntry \/ FibLetA \/ FibLetB \/ FibForNext \/ FibBody \/ FibTail

\* The program: main and the calls it makes.
Spec == Init /\ [][Next]_vars

\* ------------------------------------------- fibonacci on any index
\* A caller that passes any index up to MaxN, one call after another.
FnCall ==
    /\ mpc = "test"
    /\ frame.pc = "idle"
    /\ \E m \in 0..MaxN : frame' = Call(m)
    /\ UNCHANGED <<overflow_checks, mpc, i, calls, stdout, write_err, exit_code, seen>>

FnReturn ==
    /\ mpc = "test"
    /\ frame.pc = "return"
    /\ frame' = NoFrame
    /\ UNCHANGED <<overflow_checks, mpc, i, calls, stdout, write_err, exit_code, seen>>

FnInit ==
    /\ overflow_checks \in BOOLEAN
    /\ mpc = "test"
    /\ i = 0
    /\ calls = 0
    /\ stdout = <<>>
    /\ write_err = FALSE
    /\ exit_code = -1
    /\ frame = NoFrame
    /\ seen = [m \in 0..MaxPureN |-> Uninit]

FnNext == FnCall \/ FnReturn \/ FibEntry \/ FibLetA \/ FibLetB \/ FibForNext \/ FibBody \/ FibTail

SpecFn == FnInit /\ [][FnNext]_vars

\* ------------------------------------------------- repeated calls
\* A caller that calls fibonacci again and again, in any order, and keeps
\* the value each index returned.
PureCall ==
    /\ mpc = "pure"
    /\ frame.pc = "idle"
    /\ \E m \in 0..MaxPureN : frame' = Call(m)
    /\ UNCHANGED <<overflow_checks, mpc, i, calls, stdout, write_err, exit_code, seen>>

PureReturn ==
    /\ mpc = "pure"
    /\ frame.pc = "return"
    /\ seen' = [seen EXCEPT ![frame.n] = frame.ret]
    /\ frame' = NoFrame
    /\ UNCHANGED <<overflow_checks, mpc, i, calls, stdout, write_err, exit_code>>

PureInit ==
    /\ overflow_checks \in BOOLEAN
    /\ mpc = "pure"
    /\ i = 0
    /\ calls = 0
    /\ stdout = <<>>
    /\ write_err = FALSE
    /\ exit_code = -1
    /\ frame = NoFrame
    /\ seen = [m \in 0..MaxPureN |-> Uninit]

PureNext == PureCall \/ PureReturn \/ FibEntry \/ FibLetA \/ FibLetB \/ FibForNext \/ FibBody \/ FibTail

SpecPure == PureInit /\ [][PureNext]_vars

\* ------------------------------------------------------- liveness
\* The process runs on one thread that is never suspended: a step that can be
\* taken is taken.  main and the caller of SpecFn, each under that fairness.
LiveInit == Init \/ FnInit

LiveNext == MainFor \/ MainPrintln \/ FnCall \/ FnReturn \/ FibEntry \/ FibLetA \/ FibLetB \/ FibForNext \/ FibBody \/ FibTail

SpecLive == LiveInit /\ [][LiveNext]_vars /\ WF_vars(LiveNext)

\* ------------------------------------------- the Fibonacci sequence
\* The sequence F(0) = 0, F(1) = 1, F(k) = F(k-1) + F(k-2) over the naturals,
\* held on twice the limbs of a u64 so that no term in the range is cut.
Widen(x) == x \o Zero

Low(w) == SubSeq(w, 1, U64Limbs)

High(w) == SubSeq(w, U64Limbs + 1, 2 * U64Limbs)

\* s extended by cnt more terms, each the sum of the two before it.
RECURSIVE Extend(_, _)
Extend(s, cnt) ==
    IF cnt = 0 THEN s
    ELSE IF cnt = 1 THEN Append(s, AddLimbs(s[Len(s)], s[Len(s) - 1]).sum)
    ELSE LET half == Extend(s, cnt \div 2)
         IN IF Len(half) < 2 THEN half ELSE Extend(half, cnt - (cnt \div 2))

\* F(0) .. F(MaxN + 5), at positions 1 .. MaxN + 6.
FTable == Extend(<<Widen(Zero), Widen(One)>>, MaxN + 4)

F(k) == FTable[k + 1]

\* F(k) is a u64: no sum up to it exceeds 2^64 - 1.
Fits(k) == High(F(k)) = Zero

\* The positions of an activation from the accumulators to the tail expression.
LoopPcs == {"let_a", "let_b", "for", "body", "tail"}

\* ------------------------------------------------------------ claims

\* C1: for every n whose Fibonacci number fits in a u64, fibonacci(n) returns
\* F(n); and for such n >= 2 it equals fibonacci(n-1) + fibonacci(n-2).
C1_ReturnsF ==
    (mpc = "test" /\ frame.pc = "return" /\ Fits(frame.n)) =>
        /\ Widen(frame.ret) = F(frame.n)
        /\ frame.n >= 2 =>
             LET p == fibonacci(frame.n - 1, overflow_checks)
                 q == fibonacci(frame.n - 2, overflow_checks)
                 s == AddLimbs(p.ret, q.ret)
             IN p.pc = "return" /\ q.pc = "return" /\ s.carry = 0 /\ frame.ret = s.sum

\* fibonacci(93) has returned F(93) = 12200160415121876738, the largest term
\* that fits.
C1_Witness ==
    /\ mpc = "test" /\ frame.pc = "return" /\ frame.n = 93
    /\ Dec(frame.ret) = "12200160415121876738"

\* C2: with every write succeeding, main emits exactly the ten lines
\* fib(0) = 0 .. fib(9) = 34, in that order, each once, and nothing else.
Expected ==
    <<"fib(0) = 0", "fib(1) = 1", "fib(2) = 1", "fib(3) = 2", "fib(4) = 3",
      "fib(5) = 5", "fib(6) = 8", "fib(7) = 13", "fib(8) = 21", "fib(9) = 34">>

C2_TenLines ==
    /\ Len(stdout) <= Len(Expected)
    /\ stdout = SubSeq(Expected, 1, Len(stdout))
    /\ ~write_err => Len(stdout) = i
    /\ (mpc = "exit" /\ ~write_err) => stdout = Expected
    /\ \A j \in 1..Len(stdout) : stdout[j] = "fib(" \o Dec(U64(j - 1)) \o ") = " \o Dec(Low(F(j - 1)))

C2_Witness == mpc = "exit" /\ exit_code = 0 /\ ~write_err /\ stdout = Expected

\* C7: while main runs, no sum a + b exceeds the largest u64, in either build.
C7_NoOverflowInMain ==
    /\ frame.pc # "panic"
    /\ frame.pc = "body" => AddLimbs(frame.a, frame.b).carry = 0

\* main is about to take the last sum of fibonacci(9): 13 + 21.
C7_Witness ==
    /\ mpc = "call" /\ frame.pc = "body" /\ frame.n = 9 /\ frame.k = 10
    /\ frame.a = <<13, 0, 0, 0>> /\ frame.b = <<21, 0, 0, 0>>

\* C3 as stated: when a sum a + b exceeds the largest u64 the call wraps
\* silently: no panic, the loop goes on, and the call returns F(n) mod 2^64.
C3_WrapsSilently ==
    mpc = "test" =>
        /\ frame.pc # "panic"
        /\ frame.pc = "return" => frame.ret = Low(F(frame.n))

\* C3 as amended: without overflow checks a sum that does not fit wraps modulo
\* 2^64, nothing is signalled, the loop goes on for all n - 1 iterations and
\* the call returns F(n) mod 2^64; with overflow checks the call panics at the
\* first sum that does not fit, and returns only when F(n) fits.
C3_WrapsOrPanics ==
    mpc = "test" =>
        /\ ~overflow_checks =>
             /\ frame.pc # "panic"
             /\ frame.pc = "for" => frame.b = Low(F(frame.k - 1))
             /\ frame.pc = "return" =>
                  /\ frame.ret = Low(F(frame.n))
                  /\ frame.iters = IF frame.n >= 2 THEN frame.n - 1 ELSE 0
        /\ overflow_checks =>
             /\ frame.pc = "panic" => ~Fits(frame.k - 1) /\ Fits(frame.k - 2)
             /\ frame.pc = "return" => Fits(frame.n) /\ frame.ret = Low(F(frame.n))

\* Without overflow checks fibonacci(95) has returned
\* F(95) mod 2^64 = 31940434634990099905 - 2^64.
C3_Witness ==
    /\ mpc = "test" /\ ~overflow_checks /\ frame.pc = "return" /\ frame.n = 95
    /\ Dec(frame.ret) = "13493690561280548289"

\* C4 as stated: for every n >= 1, fibonacci(n) >= fibonacci(n-1).
C4_Monotone ==
    (mpc = "test" /\ frame.pc = "return" /\ frame.n >= 1) =>
        LET p == fibonacci(frame.n - 1, overflow_checks)
        IN p.pc = "return" /\ Geq(frame.ret, p.ret)

\* C4 as amended: for every n >= 1 whose Fibonacci number fits in a u64
\* (n <= 93), fibonacci(n) >= fibonacci(n-1).
C4_MonotoneInRange ==
    (mpc = "test" /\ frame.pc = "return" /\ frame.n >= 1 /\ Fits(frame.n)) =>
        LET p == fibonacci(frame.n - 1, overflow_checks)
        IN p.pc = "return" /\ Geq(frame.ret, p.ret)

\* fibonacci(93) has returned, and it is above fibonacci(92).
C4_Witness ==
    /\ mpc = "test" /\ overflow_checks /\ frame.pc = "return" /\ frame.n = 93
    /\ Dec(fibonacci(92, overflow_checks).ret) = "7540113804746346429"
    /\ frame.ret # fibonacci(92, overflow_checks).ret

\* C5: for n in {0, 1} fibonacci returns n by the early return: a and b never
\* get a value, the range is never built and the body never runs; the
\* accumulators and the loop are reached only when n >= 2.
C5_BaseCases ==
    mpc = "test" =>
        /\ frame.pc \in LoopPcs => frame.n >= 2
        /\ (frame.pc # "idle" /\ frame.n <= 1) =>
             /\ frame.pc \in {"entry", "return"}
             /\ frame.a = Uninit /\ frame.b = Uninit
             /\ frame.k = 0 /\ frame.iters = 0
        /\ (frame.pc = "return" /\ frame.n <= 1) => frame.ret = <<frame.n, 0, 0, 0>>

C5_Witness ==
    /\ mpc = "test" /\ frame.pc = "return" /\ frame.n = 1
    /\ frame.ret = <<1, 0, 0, 0>> /\ frame.iters = 0 /\ frame.a = Uninit

C8_WriteFailureFatal ==
    /\ [](write_err =>
            /\ mpc = "exit" /\ exit_code \notin {-1, 0}
            /\ frame = NoFrame /\ Len(stdout) = i /\ calls = i + 1)
    /\ [](exit_code \notin {-1, 0} => write_err)
    /\ []((mpc = "exit" /\ ~write_err) => exit_code = 0 /\ Len(stdout) = 10)
    /\ [][write_err => UNCHANGED vars]_vars

\* The write of line 4 has failed.
C8_Witness ==
    /\ write_err /\ mpc = "exit" /\ exit_code = 101
    /\ i = 4 /\ calls = 5 /\ Len(stdout) = 4

\* C9: in fibonacci(n), n >= 2 with F(n) fitting: a = 0, b = 1 before the
\* first iteration; at the iteration for step k, a = F(k-2) and b = F(k-1)
\* before the update and a = F(k-1), b = F(k) after it; b = F(n) at the
\* loop's exit, and that is returned.  (frame.k is the step after the one the
\* range has yielded last.)
C9_LoopInvariant ==
    (mpc = "test" /\ frame.n >= 2 /\ Fits(frame.n)) =>
        /\ (frame.pc = "for" /\ frame.iters = 0) =>
             frame.k = 2 /\ frame.a = <<0, 0, 0, 0>> /\ frame.b = <<1, 0, 0, 0>>
        /\ frame.pc = "body" =>
             /\ 2 <= frame.k - 1 /\ frame.k - 1 <= frame.n
             /\ Widen(frame.a) = F(frame.k - 3)
             /\ Widen(frame.b) = F(frame.k - 2)
        /\ (frame.pc = "for" /\ frame.iters > 0) =>
             /\ Widen(frame.a) = F(frame.k - 2)
             /\ Widen(frame.b) = F(frame.k - 1)
        /\ frame.pc = "tail" =>
             frame.k = frame.n + 1 /\ Widen(frame.b) = F(frame.n)
        /\ frame.pc = "return" => Widen(frame.ret) = F(frame.n)

\* fibonacci(93) has just finished step 93: a = F(92), b = F(93).
C9_Witness ==
    /\ mpc = "test" /\ frame.pc = "for" /\ frame.n = 93 /\ frame.k = 94
    /\ Dec(frame.a) = "7540113804746346429"
    /\ Dec(frame.b) = "12200160415121876738"

====
